---- MODULE Spec2Model ----
(***************************************************************************)
(* Remote execution core of the SSH command runner:                        *)
(*   - SSHKeyService   (src/server/services/ssh-key.ts)  session table     *)
(*   - HTTP routes     (src/server/storage.ts, registerRoutes)             *)
(*   - DatabaseStorage / MemStorage (src/server/storage.ts)                *)
(*   - DuplicateDetectionService (src/server/services/duplicate-detection) *)
(* Every await of a route handler is a separate step, so handlers          *)
(* interleave exactly where the Node event loop lets them.                 *)
(***************************************************************************)
EXTENDS Integers, Sequences, FiniteSets, TLC

\* ------------------------------------------------------------------ bounds
MaxConnects == 2      \* connect route calls
MaxDisconnects == 2   \* disconnect route calls
MaxExecs == 2         \* execute route calls
MaxCommands == 2      \* command records
SessionExecs == 1     \* execute route calls in the session specification
SessionCommands == 1  \* command records in the session specification
SessionDisconnects == 1  \* disconnect route calls beside connects and executions
StreamConnects == 1   \* connect route calls in the streaming specification
MaxChunks == 2        \* output chunks per execution
MaxSubscribers == 1   \* WebSocket clients

ConnIds == {"a", "b"}
StoreIds == {"a", "b", "c", "d"} \* ids of the storage-only runs
ConnectCalls == 1..MaxConnects
DisconnectCalls == 1..MaxDisconnects
ExecCalls == 1..MaxExecs
CmdIds == 1..MaxCommands
WsClients == 1..MaxSubscribers

None == "none"
\* connections.get(id) of an id that is not in the Map
NoClient == 0
Undefined == "undefined"

\* credential sources of the deployment documentation, in documented order
CredentialOrder == <<"privateKey", "agent", "keyFile">>
Sources == {CredentialOrder[i] : i \in 1..3}

VARIABLES
  env,          \* credential sources present in the process environment
  dbConns,      \* DatabaseStorage ssh_connections: id -> isActive
  memConns,     \* MemStorage.sshConnections: id -> isActive
  connections,  \* SSHKeyService.connections: id -> transport client
  conn,         \* connect route calls and the client each one creates
  disc,         \* disconnect route calls
  cmds,         \* command records
  exec,         \* execute route calls
  wsOpen,       \* wss.clients with readyState OPEN
  wsLog,        \* messages each WebSocket client received
  dup           \* one checkForDuplicates call

vars == <<env, dbConns, memConns, connections, conn, disc, cmds, exec,
          wsOpen, wsLog, dup>>

\* ------------------------------------------------------ generic helpers

Extend(f, k, v) == [x \in (DOMAIN f) \cup {k} |-> IF x = k THEN v ELSE f[x]]

ActiveSet(store) == {i \in DOMAIN store : store[i] = TRUE}

\* ------------------------------------------------------------- storage
\* db.insert(sshConnections).values({...insertConnection, port}): the
\* insert schema keeps isActive, so the caller's value is stored.
DbCreateSSHConnection(store, id, isActive) == Extend(store, id, isActive)

\* MemStorage spreads the input and then forces isActive: false.
MemCreateSSHConnection(store, id, isActive) == Extend(store, id, FALSE)

\* first statement of DatabaseStorage.updateSSHConnectionStatus(id, true)
DbDeactivateAll(store) == [i \in DOMAIN store |-> FALSE]

\* second statement: update ... set isActive where id = id
DbSetActive(store, id, isActive) ==
  [i \in DOMAIN store |-> IF i = id THEN isActive ELSE store[i]]

\* the whole call, run to completion
DbUpdateSSHConnectionStatus(store, id, isActive) ==
  DbSetActive(IF isActive THEN DbDeactivateAll(store) ELSE store, id, isActive)

MemUpdateSSHConnectionStatus(store, id, isActive) ==
  IF id \in DOMAIN store
    THEN [i \in DOMAIN store |->
            IF i = id THEN isActive
            ELSE IF isActive THEN FALSE ELSE store[i]]
    ELSE store

\* --------------------------------------------------- credential sources
\* the check dropped: an agent is assumed
AgentAssumed(e) == TRUE

\* process.env.SSH_AUTH_SOCK is set (route line 480, service line 159-160)
AgentAvailable(e) == "agent" \in e

\* ------------------------------------------------- SSHKeyService state
\* A client is live while it is ready and end() was never called on it.
Live(c) == conn[c].st = "ready" /\ conn[c].ends = 0

NewConnect == [pc |-> "idle", id |-> None, st |-> "none", timer |-> "none",
               ends |-> 0, result |-> "pending", tried |-> <<>>, resp |-> 0]

\* resolve(v) of the connect promise: only the first call settles it
Resolve(r, v) == IF r.result = "pending" THEN [r EXCEPT !.result = v] ELSE r

\* clearTimeout(timeout): a timer that already fired stays fired
ClearTimeout(r) == IF r.timer = "armed" THEN [r EXCEPT !.timer = "cleared"] ELSE r

\* connectWithAgent up to its returned promise: the SSH_AUTH_SOCK check,
\* then new Client(), setTimeout, the handlers and client.connect
ConnectWithAgent(r) ==
  IF ~AgentAvailable(env)
    THEN [r EXCEPT !.result = "false"]
    ELSE [r EXCEPT !.st = "connecting", !.timer = "armed"]

\* the whole table cleared instead of the one entry
DisconnectTableAll(id) == [x \in ConnIds |-> NoClient]

\* SSHKeyService.disconnect(id) and SSHService.disconnect(id), applied to
\* the pair <<connections, conn>>
DisconnectTable(id) ==
  IF connections[id] # NoClient THEN [connections EXCEPT ![id] = NoClient] ELSE connections

DisconnectClients(id) ==
  IF connections[id] # NoClient
    THEN [conn EXCEPT ![connections[id]].ends = @ + 1]
    ELSE conn

\* ------------------------------------------------------ storage routes
\* POST /api/ssh-connections: ids are fresh (gen_random_uuid)
CreateConnection(id, isActive) ==
  /\ id \notin DOMAIN dbConns
  /\ dbConns' = DbCreateSSHConnection(dbConns, id, isActive)
  /\ UNCHANGED <<env, memConns, connections, conn, disc, cmds, exec,
                 wsOpen, wsLog, dup>>

\* ------------------------------------------------------- connect route
\* POST /api/ssh-connections/:id/connect, up to await getSSHConnection
ConnectStart(c, id) ==
  /\ conn[c].pc = "idle"
  /\ IF c = 1 THEN TRUE ELSE conn[c - 1].pc # "idle"
  /\ conn' = [conn EXCEPT ![c].pc = "lookup", ![c].id = id]
  /\ UNCHANGED <<env, dbConns, memConns, connections, disc, cmds, exec,
                 wsOpen, wsLog, dup>>

\* the lookup returned: 404, 400 (no agent) or connectWithAgent is started
ConnectLookup(c) ==
  /\ conn[c].pc = "lookup"
  /\ conn' = [conn EXCEPT ![c] =
       IF conn[c].id \notin DOMAIN dbConns
         THEN [@ EXCEPT !.pc = "done", !.resp = 404]
       ELSE IF ~AgentAvailable(env)
         THEN [@ EXCEPT !.pc = "done", !.resp = 400, !.tried = <<"agent">>]
       ELSE [ConnectWithAgent(@) EXCEPT !.pc = "awaiting", !.tried = <<"agent">>]]
  /\ UNCHANGED <<env, dbConns, memConns, connections, disc, cmds, exec,
                 wsOpen, wsLog, dup>>

\* client.on('ready'): clearTimeout, connections.set(id, client), resolve(true)
ClientReady(c) ==
  /\ conn[c].st = "connecting"
  /\ conn' = [conn EXCEPT ![c] = Resolve(ClearTimeout([@ EXCEPT !.st = "ready"]), "true")]
  /\ connections' = [connections EXCEPT ![conn[c].id] = c]
  /\ UNCHANGED <<env, dbConns, memConns, disc, cmds, exec,
                 wsOpen, wsLog, dup>>

\* client.on('error'): clearTimeout, resolve(false); the table is not touched
ClientError(c) ==
  /\ conn[c].st \in {"connecting", "ready"}
  /\ conn' = [conn EXCEPT ![c] = Resolve(ClearTimeout([@ EXCEPT !.st = "failed"]), "false")]
  /\ UNCHANGED <<env, dbConns, memConns, connections, disc, cmds, exec,
                 wsOpen, wsLog, dup>>

\* the 10 s timer: client.end(), resolve(false)
ConnectTimeout(c) ==
  /\ conn[c].timer = "armed"
  /\ conn' = [conn EXCEPT ![c] =
       Resolve([@ EXCEPT !.timer = "fired", !.ends = @ + 1], "false")]
  /\ UNCHANGED <<env, dbConns, memConns, connections, disc, cmds, exec,
                 wsOpen, wsLog, dup>>

\* connectWithAgent resolved false: 500
ConnectFailed(c) ==
  /\ conn[c].pc = "awaiting"
  /\ conn[c].result = "false"
  /\ conn' = [conn EXCEPT ![c].pc = "done", ![c].resp = 500]
  /\ UNCHANGED <<env, dbConns, memConns, connections, disc, cmds, exec,
                 wsOpen, wsLog, dup>>

\* resolved true: updateSSHConnectionStatus(id, true), first statement
ConnectDeactivateAll(c) ==
  /\ conn[c].pc = "awaiting"
  /\ conn[c].result = "true"
  /\ dbConns' = DbDeactivateAll(dbConns)
  /\ conn' = [conn EXCEPT ![c].pc = "activating"]
  /\ UNCHANGED <<env, memConns, connections, disc, cmds, exec,
                 wsOpen, wsLog, dup>>

\* second statement, then res.json({ success: true })
ConnectSetActive(c) ==
  /\ conn[c].pc = "activating"
  /\ dbConns' = DbSetActive(dbConns, conn[c].id, TRUE)
  /\ conn' = [conn EXCEPT ![c].pc = "done", ![c].resp = 200]
  /\ UNCHANGED <<env, memConns, connections, disc, cmds, exec,
                 wsOpen, wsLog, dup>>

\* cut and event are history only: a disconnect of the request's
\* connection id was called while its executeCommand was in flight; the
\* code the close event carried
NewExec == [pc |-> "idle", cmd |-> 0, id |-> None, h |-> NoClient, out |-> <<>>,
            code |-> None, err |-> None, subs |-> {}, resp |-> 0, cut |-> FALSE,
            event |-> None]

InFlight(e) == exec[e].pc \in {"opening", "streaming"}

\* history: mark the in-flight executions of the ids being disconnected
MarkCut(ids) ==
  [e \in ExecCalls |->
     IF InFlight(e) /\ exec[e].id \in ids THEN [exec[e] EXCEPT !.cut = TRUE]
     ELSE exec[e]]

\* ---------------------------------------------------- disconnect route
NewDisconnect == [pc |-> "idle", id |-> None]

\* POST /api/ssh-connections/:id/disconnect: sshKeyService.disconnect(id),
\* then the status update is awaited
DisconnectStart(d, id) ==
  /\ disc[d].pc = "idle"
  /\ IF d = 1 THEN TRUE ELSE disc[d - 1].pc # "idle"
  /\ conn' = DisconnectClients(id)
  /\ connections' = DisconnectTable(id)
  /\ disc' = [disc EXCEPT ![d] = [pc |-> "updating", id |-> id]]
  /\ exec' = MarkCut({id})
  /\ UNCHANGED <<env, dbConns, memConns, cmds,
                 wsOpen, wsLog, dup>>

\* updateSSHConnectionStatus(id, false) ran, res.json({ success: true })
DisconnectSetInactive(d) ==
  /\ disc[d].pc = "updating"
  /\ dbConns' = DbUpdateSSHConnectionStatus(dbConns, disc[d].id, FALSE)
  /\ disc' = [disc EXCEPT ![d].pc = "done"]
  /\ UNCHANGED <<env, memConns, connections, conn, cmds, exec,
                 wsOpen, wsLog, dup>>

\* the table cleared without ending its clients
DisconnectAllKeepOpen ==
  /\ \E id \in ConnIds : connections[id] # NoClient
  /\ connections' = [id \in ConnIds |-> NoClient]
  /\ exec' = MarkCut({id \in ConnIds : connections[id] # NoClient})
  /\ UNCHANGED <<env, dbConns, memConns, conn, disc, cmds, wsOpen, wsLog, dup>>

\* SSHKeyService.disconnectAll(): end every client of the table, clear it
DisconnectAll ==
  /\ \E id \in ConnIds : connections[id] # NoClient
  /\ conn' = [c \in ConnectCalls |->
       IF \E id \in ConnIds : connections[id] = c
         THEN [conn[c] EXCEPT !.ends = @ + 1] ELSE conn[c]]
  /\ connections' = [id \in ConnIds |-> NoClient]
  /\ exec' = MarkCut({id \in ConnIds : connections[id] # NoClient})
  /\ UNCHANGED <<env, dbConns, memConns, disc, cmds,
                 wsOpen, wsLog, dup>>

\* ------------------------------------------------------ command records
\* POST /api/commands: createCommand stores status 'pending'; connection_id
\* references an existing connection row
CreateCommand(k, id) ==
  /\ k \notin DOMAIN cmds
  /\ IF k = 1 THEN TRUE ELSE (k - 1) \in DOMAIN cmds
  /\ id \in DOMAIN dbConns
  /\ cmds' = Extend(cmds, k, [connectionId |-> id, status |-> "pending",
                              output |-> <<>>, exitCode |-> None])
  /\ UNCHANGED <<env, dbConns, memConns, connections, conn, disc, exec,
                 wsOpen, wsLog, dup>>

\* updateCommandStatus(id, status)
UpdateCommandStatus(tbl, k, status) ==
  IF k \in DOMAIN tbl THEN [tbl EXCEPT ![k].status = status] ELSE tbl

\* the result stored without its output
UpdateCommandResultNoOutput(tbl, k, output, exitCode, status) ==
  IF k \in DOMAIN tbl
    THEN [tbl EXCEPT ![k].exitCode = exitCode, ![k].status = status]
    ELSE tbl

\* updateCommandResult(id, { output, exitCode, status, executionTime })
UpdateCommandResult(tbl, k, output, exitCode, status) ==
  IF k \in DOMAIN tbl
    THEN [tbl EXCEPT ![k].output = output, ![k].exitCode = exitCode,
                     ![k].status = status]
    ELSE tbl

\* const status = result.exitCode === 0 ? 'success' : 'error'
StatusOf(exitCode) == IF exitCode = "0" THEN "success" ELSE "error"

\* ------------------------------------------------------------ WebSocket
\* wss.on('connection')
WsConnect(w) ==
  /\ w \notin wsOpen
  /\ wsOpen' = wsOpen \cup {w}
  /\ UNCHANGED <<env, dbConns, memConns, connections, conn, disc, cmds, exec,
                 wsLog, dup>>

\* ws.on('close')
WsClose(w) ==
  /\ w \in wsOpen
  /\ wsOpen' = wsOpen \ {w}
  /\ UNCHANGED <<env, dbConns, memConns, connections, conn, disc, cmds, exec,
                 wsLog, dup>>

\* every message sent twice
BroadcastTwice(subs, msg) ==
  [w \in WsClients |->
     IF w \in subs /\ w \in wsOpen
       THEN Append(Append(wsLog[w], msg), msg) ELSE wsLog[w]]

\* clients.forEach(client => client.send(msg)) over the request's snapshot;
\* only a socket that is still open receives the message; the field run of
\* a message is history only, the execute request that sent it
Broadcast(subs, msg) ==
  [w \in WsClients |->
     IF w \in subs /\ w \in wsOpen THEN Append(wsLog[w], msg) ELSE wsLog[w]]

\* -------------------------------------------------------- execute route
\* the same call without the "if (!client) throw": the request is handed to
\* a client that does not exist and its promise is never settled
ExecuteCommandUnchecked(r, id) ==
  IF connections[id] # NoClient /\ ~Live(connections[id])
    THEN [r EXCEPT !.pc = "rejected", !.err = "Failed to execute command"]
    ELSE [r EXCEPT !.pc = "opening", !.h = connections[id]]

NoSession == "SSH connection not found"
ExecFailure == "Failed to execute command"

\* SSHKeyService.executeCommand up to its returned promise, for the call
\* record r: connections.get(id), the throw, else client.exec on the client
ExecuteCommand(r, id) ==
  IF connections[id] = NoClient
    THEN [r EXCEPT !.pc = "rejected", !.err = NoSession]
  ELSE IF ~Live(connections[id])
    THEN [r EXCEPT !.pc = "rejected", !.err = ExecFailure]
  ELSE [r EXCEPT !.pc = "opening", !.h = connections[id]]

\* POST /api/commands/:id/execute: getCommand; 404 or updateCommandStatus
\* (id, 'running') is issued
ExecStart(e, k) ==
  /\ exec[e].pc = "idle"
  /\ IF e = 1 THEN TRUE ELSE exec[e - 1].pc # "idle"
  /\ exec' = [exec EXCEPT ![e] =
       IF k \in DOMAIN cmds
         THEN [@ EXCEPT !.pc = "marking", !.cmd = k, !.id = cmds[k].connectionId]
         ELSE [@ EXCEPT !.pc = "done", !.cmd = k, !.resp = 404]]
  /\ UNCHANGED <<env, dbConns, memConns, connections, conn, disc, cmds,
                 wsOpen, wsLog, dup>>

\* the status update ran
ExecMarkRunning(e) ==
  /\ exec[e].pc = "marking"
  /\ cmds' = UpdateCommandStatus(cmds, exec[e].cmd, "running")
  /\ exec' = [exec EXCEPT ![e].pc = "dispatch"]
  /\ UNCHANGED <<env, dbConns, memConns, connections, conn, disc,
                 wsOpen, wsLog, dup>>

\* the handler resumes: snapshot of the open WebSocket clients, then
\* sshKeyService.executeCommand(connectionId, generatedCommand, onData)
ExecDispatch(e) ==
  /\ exec[e].pc = "dispatch"
  /\ exec' = [exec EXCEPT ![e] = ExecuteCommand([@ EXCEPT !.subs = wsOpen], @.id)]
  /\ UNCHANGED <<env, dbConns, memConns, connections, conn, disc, cmds,
                 wsOpen, wsLog, dup>>

\* client.exec callback with a stream: the three handlers are attached
ExecOpened(e) ==
  /\ exec[e].pc = "opening"
  /\ exec' = [exec EXCEPT ![e].pc = "streaming"]
  /\ UNCHANGED <<env, dbConns, memConns, connections, conn, disc, cmds,
                 wsOpen, wsLog, dup>>

\* client.exec callback with err: reject
ExecOpenFailed(e) ==
  /\ exec[e].pc = "opening"
  /\ exec' = [exec EXCEPT ![e].pc = "rejected", ![e].err = ExecFailure]
  /\ UNCHANGED <<env, dbConns, memConns, connections, conn, disc, cmds,
                 wsOpen, wsLog, dup>>

\* a data handler that a closed subscriber of the snapshot makes fail
OnDataGuarded(r, chunk) ==
  IF r.subs \subseteq wsOpen
    THEN [r EXCEPT !.out = Append(@, chunk)]
    ELSE [r EXCEPT !.pc = "rejected", !.err = ExecFailure]

\* what the data handler does to the execution: output += chunk, before
\* and whatever the onData callback then sends (send() is not awaited and
\* drops the message on a socket that closed since the snapshot)
OnData(r, chunk) == [r EXCEPT !.out = Append(@, chunk)]

\* stream.on('data') / stream.stderr.on('data'): output += chunk; onData
StreamData(e) ==
  /\ exec[e].pc = "streaming"
  /\ Len(exec[e].out) < MaxChunks
  /\ LET chunk == Len(exec[e].out) + 1 IN
       /\ exec' = [exec EXCEPT ![e] = OnData(@, chunk)]
       /\ wsLog' = Broadcast(exec[e].subs,
            [type |-> "output", commandId |-> exec[e].cmd, chunk |-> chunk,
             run |-> e,
             info |-> None])
  /\ UNCHANGED <<env, dbConns, memConns, connections, conn, disc, cmds,
                 wsOpen, dup>>

\* SSHService close handler: exitCode = code || 0
SshCloseExitCode(code) == IF code \in {Undefined, "0"} THEN "0" ELSE code

\* SSHKeyService close handler: exitCode = code
CloseExitCode(code) == code

\* stream.on('close', code): exitCode = code; resolve({ output, exitCode })
StreamClose(e, code) ==
  /\ exec[e].pc = "streaming"
  /\ exec' = [exec EXCEPT ![e].pc = "resolved", ![e].code = CloseExitCode(code),
                          ![e].event = code]
  /\ UNCHANGED <<env, dbConns, memConns, connections, conn, disc, cmds,
                 wsOpen, wsLog, dup>>

\* await storage.updateCommandResult(id, ...)
ExecStoreResult(e) ==
  /\ exec[e].pc = "resolved"
  /\ cmds' = UpdateCommandResult(cmds, exec[e].cmd, exec[e].out, exec[e].code,
                                 StatusOf(exec[e].code))
  /\ exec' = [exec EXCEPT ![e].pc = "notify"]
  /\ UNCHANGED <<env, dbConns, memConns, connections, conn, disc,
                 wsOpen, wsLog, dup>>

\* 'completed' is sent to the snapshot, then res.json({ success: true })
ExecCompleted(e) ==
  /\ exec[e].pc = "notify"
  /\ wsLog' = Broadcast(exec[e].subs,
       [type |-> "completed", commandId |-> exec[e].cmd, chunk |-> 0, run |-> e,
        info |-> exec[e].code])
  /\ exec' = [exec EXCEPT ![e].pc = "done", ![e].resp = 200]
  /\ UNCHANGED <<env, dbConns, memConns, connections, conn, disc, cmds,
                 wsOpen, dup>>

\* catch: await storage.updateCommandStatus(id, 'error')
ExecStoreError(e) ==
  /\ exec[e].pc = "rejected"
  /\ cmds' = UpdateCommandStatus(cmds, exec[e].cmd, "error")
  /\ exec' = [exec EXCEPT ![e].pc = "notifyError"]
  /\ UNCHANGED <<env, dbConns, memConns, connections, conn, disc,
                 wsOpen, wsLog, dup>>

\* 'error' is sent to the snapshot, then res.status(500)
ExecErrored(e) ==
  /\ exec[e].pc = "notifyError"
  /\ wsLog' = Broadcast(exec[e].subs,
       [type |-> "error", commandId |-> exec[e].cmd, chunk |-> 0, run |-> e,
        info |-> exec[e].err])
  /\ exec' = [exec EXCEPT ![e].pc = "done", ![e].resp = 500]
  /\ UNCHANGED <<env, dbConns, memConns, connections, conn, disc, cmds,
                 wsOpen, dup>>

\* ------------------------------------------------------- specification
\* exit codes of the close event, as JavaScript values: 0, 1, or no code
ExitCodes == {"0", "1", Undefined}


Init ==
  /\ env \in SUBSET Sources
  /\ dbConns = <<>>
  /\ memConns = <<>>
  /\ connections = [id \in ConnIds |-> NoClient]
  /\ conn = [c \in ConnectCalls |-> NewConnect]
  /\ disc = [d \in DisconnectCalls |-> NewDisconnect]
  /\ cmds = <<>>
  /\ exec = [e \in ExecCalls |-> NewExec]
  /\ wsOpen = {}
  /\ wsLog = [w \in WsClients |-> <<>>]
  /\ dup = [pc |-> "idle", command |-> <<>>, rule |-> 0, n |-> 0,
            param |-> <<>>, probes |-> <<>>,
            verdict |-> [isDuplicate |-> FALSE, message |-> <<>>,
                         suggestions |-> 0],
            id |-> None]

\* every step of connect call c after its start
ConnectSteps(c) ==
  \/ ConnectLookup(c)
  \/ ClientReady(c)
  \/ ClientError(c)
  \/ ConnectTimeout(c)
  \/ ConnectFailed(c)
  \/ ConnectDeactivateAll(c)
  \/ ConnectSetActive(c)

\* every step of execute call e after its start
ExecSteps(e, codes) ==
  \/ ExecMarkRunning(e)
  \/ ExecDispatch(e)
  \/ ExecOpened(e)
  \/ ExecOpenFailed(e)
  \/ StreamData(e)
  \/ \E code \in codes : StreamClose(e, code)
  \/ ExecStoreResult(e)
  \/ ExecCompleted(e)
  \/ ExecStoreError(e)
  \/ ExecErrored(e)

\* Connection specification: the connect and disconnect routes under every
\* credential environment, with every transport event.
ConnectNext ==
  \/ \E id \in ConnIds, b \in BOOLEAN : CreateConnection(id, b)
  \/ \E c \in ConnectCalls, id \in ConnIds : ConnectStart(c, id)
  \/ \E c \in ConnectCalls : ConnectSteps(c)
  \/ \E d \in 1..SessionDisconnects, id \in ConnIds : DisconnectStart(d, id)
  \/ \E d \in 1..SessionDisconnects : DisconnectSetInactive(d)
  \/ DisconnectAll

ConnectSpec == Init /\ [][ConnectNext]_vars

\* Session specification: an agent is configured; connects, disconnects and
\* one execute request interleave.
InitSession == Init /\ env = {"agent"}

Next ==
  \/ \E id \in ConnIds : CreateConnection(id, FALSE)
  \/ \E c \in ConnectCalls, id \in ConnIds : ConnectStart(c, id)
  \/ \E c \in ConnectCalls : ConnectSteps(c)
  \/ \E d \in 1..SessionDisconnects, id \in ConnIds : DisconnectStart(d, id)
  \/ \E d \in 1..SessionDisconnects : DisconnectSetInactive(d)
  \/ DisconnectAll
  \/ \E k \in 1..SessionCommands, id \in ConnIds : CreateCommand(k, id)
  \/ \E e \in 1..SessionExecs, k \in 1..SessionCommands : ExecStart(e, k)
  \/ \E e \in 1..SessionExecs : ExecSteps(e, ExitCodes)

Spec == InitSession /\ [][Next]_vars

\* Streaming specification: concurrent execute requests and WebSocket
\* subscribers on sessions opened through the connect route.
StreamNext ==
  \/ \E id \in ConnIds : CreateConnection(id, FALSE)
  \/ \E c \in 1..StreamConnects, id \in ConnIds : ConnectStart(c, id)
  \/ \E c \in 1..StreamConnects : ConnectSteps(c)
  \/ \E k \in CmdIds, id \in ConnIds : CreateCommand(k, id)
  \/ \E e \in ExecCalls, k \in CmdIds : ExecStart(e, k)
  \/ \E e \in ExecCalls : ExecSteps(e, {"0"})
  \/ \E w \in WsClients : WsConnect(w)
  \/ \E w \in WsClients : WsClose(w)

StreamSpec == InitSession /\ [][StreamNext]_vars

\* Fair session specification.  The event loop runs every continuation
\* whose await has settled and every timer that stays armed; a client on
\* which end() was called tears its channels down, so their close (or
\* failed open) is delivered.  The remote host owes nothing: ready, error,
\* data and the close of a running command are not fair.
Teardown(e) ==
  /\ exec[e].h # NoClient
  /\ conn[exec[e].h].ends > 0
  /\ StreamClose(e, Undefined) \/ ExecOpenFailed(e)

Fairness ==
  /\ \A c \in ConnectCalls :
       /\ WF_vars(ConnectLookup(c))
       /\ WF_vars(ConnectTimeout(c))
       /\ WF_vars(ConnectFailed(c))
       /\ WF_vars(ConnectDeactivateAll(c))
       /\ WF_vars(ConnectSetActive(c))
  /\ \A d \in DisconnectCalls : WF_vars(DisconnectSetInactive(d))
  /\ \A e \in 1..SessionExecs :
       /\ WF_vars(ExecMarkRunning(e))
       /\ WF_vars(ExecDispatch(e))
       /\ WF_vars(Teardown(e))
       /\ WF_vars(ExecStoreResult(e))
       /\ WF_vars(ExecCompleted(e))
       /\ WF_vars(ExecStoreError(e))
       /\ WF_vars(ExecErrored(e))

FairSpec == InitSession /\ [][Next]_vars /\ Fairness

\* Teardown specification: sessions of two ids are opened and closed by
\* repeated disconnect calls and by disconnectAll.
TeardownNext ==
  \/ \E id \in ConnIds : CreateConnection(id, FALSE)
  \/ \E c \in ConnectCalls, id \in ConnIds : ConnectStart(c, id)
  \/ \E c \in ConnectCalls : ConnectSteps(c)
  \/ \E d \in DisconnectCalls, id \in ConnIds : DisconnectStart(d, id)
  \/ \E d \in DisconnectCalls : DisconnectSetInactive(d)
  \/ DisconnectAll

TeardownSpec == InitSession /\ [][TeardownNext]_vars

\* Route specification: the connect and disconnect routes alone, every
\* call interleaved with the others at its awaits.
RouteNext ==
  \/ \E id \in ConnIds : CreateConnection(id, FALSE)
  \/ \E c \in ConnectCalls, id \in ConnIds : ConnectStart(c, id)
  \/ \E c \in ConnectCalls : ConnectSteps(c)
  \/ \E d \in DisconnectCalls, id \in ConnIds : DisconnectStart(d, id)
  \/ \E d \in DisconnectCalls : DisconnectSetInactive(d)

RouteSpec == InitSession /\ [][RouteNext]_vars

\* ============================================ DuplicateDetectionService
\* Strings are sequences of characters, so that includes, match, trim and
\* replace are computed as JavaScript computes them.

\* commands given to checkForDuplicates
CmdAptDocker ==
  <<"a", "p", "t", " ", "i", "n", "s", "t", "a", "l", "l", " ", "d", "o",
      "c", "k", "e", "r", " ", "-", "y">>
CmdRunWeb ==
  <<"d", "o", "c", "k", "e", "r", " ", "r", "u", "n", " ", "-", "-", "n",
      "a", "m", "e", " ", "w", "e", "b", " ", "-", "p", " ", "8", "0", ":",
      "8", "0", " ", "n", "g", "i", "n", "x">>
CmdRunWeb2 ==
  <<"d", "o", "c", "k", "e", "r", " ", "r", "u", "n", " ", "-", "-", "n",
      "a", "m", "e", " ", "w", "e", "b", "2", " ", "-", "p", " ", "8", "0",
      ":", "8", "0", " ", "n", "g", "i", "n", "x">>
CmdBuild ==
  <<"d", "o", "c", "k", "e", "r", " ", "b", "u", "i", "l", "d", " ", "-",
      "t", " ", "a", "p", "p", " ", ".">>
CmdGitInit ==
  <<"g", "i", "t", " ", "i", "n", "i", "t">>
CmdStart ==
  <<"s", "y", "s", "t", "e", "m", "c", "t", "l", " ", "s", "t", "a", "r",
      "t", " ", "n", "g", "i", "n", "x">>
CmdLs ==
  <<"l", "s">>
\* a build whose tag carries a shell separator
CmdBuildSeparator ==
  <<"d", "o", "c", "k", "e", "r", " ", "b", "u", "i", "l", "d", " ", "-",
      "t", " ", "x", ";", "i", "d", " ", ".">>

\* literals of the rule table
LitAptInstallDocker ==
  <<"a", "p", "t", " ", "i", "n", "s", "t", "a", "l", "l", " ", "d", "o",
      "c", "k", "e", "r">>
LitYumInstallDocker ==
  <<"y", "u", "m", " ", "i", "n", "s", "t", "a", "l", "l", " ", "d", "o",
      "c", "k", "e", "r">>
LitDnfInstallDocker ==
  <<"d", "n", "f", " ", "i", "n", "s", "t", "a", "l", "l", " ", "d", "o",
      "c", "k", "e", "r">>
LitDockerBuild ==
  <<"d", "o", "c", "k", "e", "r", " ", "b", "u", "i", "l", "d">>
LitDockerRun ==
  <<"d", "o", "c", "k", "e", "r", " ", "r", "u", "n">>
LitDashT ==
  <<"-", "t">>
LitDashName ==
  <<"-", "-", "n", "a", "m", "e">>
LitAptInstall ==
  <<"a", "p", "t", " ", "i", "n", "s", "t", "a", "l", "l", " ">>
LitYumInstall ==
  <<"y", "u", "m", " ", "i", "n", "s", "t", "a", "l", "l", " ">>
LitDnfInstall ==
  <<"d", "n", "f", " ", "i", "n", "s", "t", "a", "l", "l", " ">>
LitPacmanS ==
  <<"p", "a", "c", "m", "a", "n", " ", "-", "S", " ">>
LitGitInit ==
  <<"g", "i", "t", " ", "i", "n", "i", "t">>
LitSystemctlStart ==
  <<"s", "y", "s", "t", "e", "m", "c", "t", "l", " ", "s", "t", "a", "r",
      "t", " ">>
LitDashY ==
  <<"-", "y">>
LitDockerVersion ==
  <<"D", "o", "c", "k", "e", "r", " ", "v", "e", "r", "s", "i", "o", "n">>
LitActive ==
  <<"a", "c", "t", "i", "v", "e">>
LitNotGit ==
  <<"n", "o", "t", " ", "a", " ", "g", "i", "t", " ", "r", "e", "p", "o",
      "s", "i", "t", "o", "r", "y">>

\* probe command templates
ProbeDockerVersion ==
  <<"d", "o", "c", "k", "e", "r", " ", "-", "-", "v", "e", "r", "s", "i",
      "o", "n">>
ProbeImagesPre ==
  <<"d", "o", "c", "k", "e", "r", " ", "i", "m", "a", "g", "e", "s", " ",
      "-", "q", " ">>
ProbePsPre ==
  <<"d", "o", "c", "k", "e", "r", " ", "p", "s", " ", "-", "-", "f", "i",
      "l", "t", "e", "r", " ", "\"", "n", "a", "m", "e", "=">>
ProbePsPost ==
  <<"\"", " ", "-", "-", "f", "o", "r", "m", "a", "t", " ", "\"", "t", "a",
      "b", "l", "e", " ", "{", "{", ".", "N", "a", "m", "e", "s", "}", "}",
      "\"">>
ProbeDpkgPre ==
  <<"d", "p", "k", "g", " ", "-", "l", " ", "|", " ", "g", "r", "e", "p",
      " ", "-", "i", " ">>
ProbeRpmPre ==
  <<"r", "p", "m", " ", "-", "q", "a", " ", "|", " ", "g", "r", "e", "p",
      " ", "-", "i", " ">>
ProbePacmanPre ==
  <<"p", "a", "c", "m", "a", "n", " ", "-", "Q", " ", "|", " ", "g", "r",
      "e", "p", " ", "-", "i", " ">>
ProbeWhichPre ==
  <<"w", "h", "i", "c", "h", " ">>
ProbeCommandVPre ==
  <<"c", "o", "m", "m", "a", "n", "d", " ", "-", "v", " ">>
ProbeGitStatus ==
  <<"c", "d", " ", ".", " ", "&", "&", " ", "g", "i", "t", " ", "s", "t",
      "a", "t", "u", "s">>
ProbeIsActivePre ==
  <<"s", "y", "s", "t", "e", "m", "c", "t", "l", " ", "i", "s", "-", "a",
      "c", "t", "i", "v", "e", " ">>

\* messages
MsgDockerInstalled ==
  <<"D", "o", "c", "k", "e", "r", " ", "i", "s", " ", "a", "l", "r", "e",
      "a", "d", "y", " ", "i", "n", "s", "t", "a", "l", "l", "e", "d", " ",
      "o", "n", " ", "t", "h", "i", "s", " ", "s", "y", "s", "t", "e", "m",
      ".">>
MsgImagePre ==
  <<"D", "o", "c", "k", "e", "r", " ", "i", "m", "a", "g", "e", " ", "\"">>
MsgImagePost ==
  <<"\"", " ", "a", "l", "r", "e", "a", "d", "y", " ", "e", "x", "i", "s",
      "t", "s", ".">>
MsgContainerPre ==
  <<"C", "o", "n", "t", "a", "i", "n", "e", "r", " ", "\"">>
MsgContainerPost ==
  <<"\"", " ", "i", "s", " ", "a", "l", "r", "e", "a", "d", "y", " ", "r",
      "u", "n", "n", "i", "n", "g", ".">>
MsgPackagePre ==
  <<"P", "a", "c", "k", "a", "g", "e", " ", "\"">>
MsgPackagePost ==
  <<"\"", " ", "i", "s", " ", "a", "l", "r", "e", "a", "d", "y", " ", "i",
      "n", "s", "t", "a", "l", "l", "e", "d", ".">>
MsgGit ==
  <<"G", "i", "t", " ", "r", "e", "p", "o", "s", "i", "t", "o", "r", "y",
      " ", "i", "s", " ", "a", "l", "r", "e", "a", "d", "y", " ", "i", "n",
      "i", "t", "i", "a", "l", "i", "z", "e", "d", " ", "i", "n", " ", "t",
      "h", "i", "s", " ", "d", "i", "r", "e", "c", "t", "o", "r", "y", ".">>
MsgServicePre ==
  <<"S", "e", "r", "v", "i", "c", "e", " ", "\"">>
MsgServicePost ==
  <<"\"", " ", "i", "s", " ", "a", "l", "r", "e", "a", "d", "y", " ", "r",
      "u", "n", "n", "i", "n", "g", ".">>

\* outputs a remote host can give to a probe
OutDockerVersion ==
  <<"D", "o", "c", "k", "e", "r", " ", "v", "e", "r", "s", "i", "o", "n",
      " ", "2", "4", ".", "0", ".", "7">>
OutNamesWeb ==
  <<"N", "A", "M", "E", "S", "\n", "w", "e", "b">>
OutNames ==
  <<"N", "A", "M", "E", "S">>
OutActive ==
  <<"a", "c", "t", "i", "v", "e", "\n">>

\* container names given with --name
NameWeb ==
  <<"w", "e", "b">>
NameWeb2 ==
  <<"w", "e", "b", "2">>

\* ------------------------------------------------- JavaScript strings
\* \s of the regular expressions and of String.prototype.trim
IsWs(ch) == ch \in {" ", "\n", "\t"}

\* s.includes(sub)
Includes(s, sub) ==
  \E i \in 0..(Len(s) - Len(sub)) : SubSeq(s, i + 1, i + Len(sub)) = sub

\* first index >= i that holds no whitespace, Len(s) + 1 if there is none
SkipWs(s, i) ==
  IF \E j \in i..Len(s) : ~IsWs(s[j])
    THEN CHOOSE j \in i..Len(s) :
           ~IsWs(s[j]) /\ \A x \in i..(j - 1) : IsWs(s[x])
    ELSE Len(s) + 1

\* last index of the longest run without whitespace that starts at i
RunEnd(s, i) ==
  CHOOSE j \in i..Len(s) :
    /\ \A x \in i..j : ~IsWs(s[x])
    /\ IF j = Len(s) THEN TRUE ELSE IsWs(s[j + 1])

\* start of the group ([^\s]+) when lit, then \s+ if gap, matches at i;
\* 0 when the pattern does not match at i
GroupStart(s, lit, gap, i) ==
  LET p == i + Len(lit) IN
    IF i + Len(lit) - 1 > Len(s) \/ SubSeq(s, i, i + Len(lit) - 1) # lit THEN 0
    ELSE IF p > Len(s) THEN 0
    ELSE IF gap
      THEN IF IsWs(s[p]) /\ SkipWs(s, p) <= Len(s) THEN SkipWs(s, p) ELSE 0
      ELSE IF IsWs(s[p]) THEN 0 ELSE p

\* command.match(/lit\s+([^\s]+)/) or command.match(/lit([^\s]+)/):
\* the leftmost match; group is match[1]
Match(s, lit, gap) ==
  LET hits == {i \in 1..Len(s) : GroupStart(s, lit, gap, i) # 0} IN
    IF hits = {} THEN [found |-> FALSE, group |-> <<>>]
    ELSE LET i == CHOOSE x \in hits : \A y \in hits : x <= y
             q == GroupStart(s, lit, gap, i)
         IN [found |-> TRUE, group |-> SubSeq(s, q, RunEnd(s, q))]

\* s.trim()
Trim(s) ==
  IF \A i \in 1..Len(s) : IsWs(s[i]) THEN <<>>
  ELSE LET a == SkipWs(s, 1)
           b == CHOOSE j \in 1..Len(s) :
                  ~IsWs(s[j]) /\ \A x \in (j + 1)..Len(s) : IsWs(s[x])
       IN SubSeq(s, a, b)

\* s.replace(/-y$/, '')
StripDashY(s) ==
  IF Len(s) >= 2 /\ SubSeq(s, Len(s) - 1, Len(s)) = LitDashY
    THEN SubSeq(s, 1, Len(s) - 2) ELSE s

\* -------------------------------------------------- JavaScript values
\* the values the probe helpers compute: "true", "false" or "undefined"
JsBool(b) == IF b THEN "true" ELSE "false"

Truthy(v) == v = "true"

\* a && b
JsAnd(a, b) == IF Truthy(a) THEN b ELSE a

\* result.success: SSHKeyExecutionResult declares output, exitCode and
\* error only, so the property read yields undefined
SuccessOf(result) ==
  IF "success" \in DOMAIN result THEN result.success ELSE Undefined

\* what executeCommand gives a probe: a rejection, or { output, exitCode }
Thrown == [thrown |-> TRUE, value |-> [output |-> <<>>, exitCode |-> None]]

Returned(output, exitCode) ==
  [thrown |-> FALSE, value |-> [output |-> output, exitCode |-> exitCode]]

ProbeOutcomes ==
  {Thrown, Returned(OutDockerVersion, "0"), Returned(<<>>, "1"),
   Returned(OutNamesWeb, "0"), Returned(OutNames, "0"),
   Returned(OutActive, "0")}

\* ------------------------------------------------------- probe helpers
\* the helper without its try / catch: the rejection reaches the caller
HelperUnguarded(outcome, test) ==
  IF outcome.thrown THEN "thrown"
  ELSE JsAnd(SuccessOf(outcome.value), JsBool(test))

\* try { result = await executeCommand(...); return result.success && test }
\* catch { return false }
Helper(outcome, test) ==
  IF outcome.thrown THEN "false"
  ELSE JsAnd(SuccessOf(outcome.value), JsBool(test))

IsDockerInstalled(outcome) ==
  Helper(outcome, Includes(outcome.value.output, LitDockerVersion))

DoesDockerImageExist(outcome) ==
  Helper(outcome, Trim(outcome.value.output) # <<>>)

IsDockerContainerRunning(outcome, containerName) ==
  Helper(outcome, Includes(outcome.value.output, containerName))

\* one turn of the loop of isPackageInstalled
IsPackageProbePositive(outcome) ==
  Helper(outcome, Trim(outcome.value.output) # <<>>)

IsServiceRunning(outcome) ==
  Helper(outcome, Trim(outcome.value.output) = LitActive)

IsGitRepoInitialized(outcome) ==
  Helper(outcome, ~Includes(outcome.value.output, LitNotGit))

\* the five commands of isPackageInstalled, in order
PackageProbe(n, packageName) ==
  CASE n = 1 -> ProbeDpkgPre \o packageName
    [] n = 2 -> ProbeRpmPre \o packageName
    [] n = 3 -> ProbePacmanPre \o packageName
    [] n = 4 -> ProbeWhichPre \o packageName
    [] OTHER -> ProbeCommandVPre \o packageName

PackageProbes == 5

\* ---------------------------------------------------------- rule table
\* the rules of checkForDuplicates in source order: 1 docker install,
\* 2 docker build, 3 docker run, 4..7 apt / yum / dnf / pacman install,
\* 8 git init, 9 systemctl start
Rules == 9

PackagePattern(rule) ==
  CASE rule = 4 -> LitAptInstall
    [] rule = 5 -> LitYumInstall
    [] rule = 6 -> LitDnfInstall
    [] OTHER -> LitPacmanS

\* the parameter a rule extracts from the command
RuleParam(rule, command) ==
  CASE rule = 2 -> Match(command, LitDashT, TRUE).group
    [] rule = 3 -> Match(command, LitDashName, TRUE).group
    [] rule \in 4..7 ->
         Trim(StripDashY(Match(command, PackagePattern(rule), FALSE).group))
    [] rule = 9 -> Match(command, LitSystemctlStart, FALSE).group
    [] OTHER -> <<>>

\* the rule's condition holds and its probe is run
RuleApplies(rule, command) ==
  CASE rule = 1 -> \/ Includes(command, LitAptInstallDocker)
                   \/ Includes(command, LitYumInstallDocker)
                   \/ Includes(command, LitDnfInstallDocker)
    [] rule = 2 -> /\ Includes(command, LitDockerBuild)
                   /\ Match(command, LitDashT, TRUE).found
    [] rule = 3 -> /\ Includes(command, LitDockerRun)
                   /\ Match(command, LitDashName, TRUE).found
    [] rule \in 4..7 -> Match(command, PackagePattern(rule), FALSE).found
    [] rule = 8 -> Includes(command, LitGitInit)
    [] OTHER -> Match(command, LitSystemctlStart, FALSE).found

\* the n-th probe command of a rule
RuleProbe(rule, n, param) ==
  CASE rule = 1 -> ProbeDockerVersion
    [] rule = 2 -> ProbeImagesPre \o param
    [] rule = 3 -> ProbePsPre \o param \o ProbePsPost
    [] rule \in 4..7 -> PackageProbe(n, param)
    [] rule = 8 -> ProbeGitStatus
    [] OTHER -> ProbeIsActivePre \o param

\* what the rule's helper makes of a probe outcome
RulePositive(rule, outcome, param) ==
  CASE rule = 1 -> IsDockerInstalled(outcome)
    [] rule = 2 -> DoesDockerImageExist(outcome)
    [] rule = 3 -> IsDockerContainerRunning(outcome, param)
    [] rule \in 4..7 -> IsPackageProbePositive(outcome)
    [] rule = 8 -> IsGitRepoInitialized(outcome)
    [] OTHER -> IsServiceRunning(outcome)

RuleMessage(rule, param) ==
  CASE rule = 1 -> MsgDockerInstalled
    [] rule = 2 -> MsgImagePre \o param \o MsgImagePost
    [] rule = 3 -> MsgContainerPre \o param \o MsgContainerPost
    [] rule \in 4..7 -> MsgPackagePre \o param \o MsgPackagePost
    [] rule = 8 -> MsgGit
    [] OTHER -> MsgServicePre \o param \o MsgServicePost

\* every rule returns three suggestions; only their number is kept
RuleSuggestions == 3

NotDuplicate == [isDuplicate |-> FALSE, message |-> <<>>, suggestions |-> 0]

\* ------------------------------------------------- checkForDuplicates
DupCalls == {CmdAptDocker, CmdRunWeb, CmdRunWeb2, CmdBuild, CmdGitInit,
             CmdStart, CmdLs, CmdBuildSeparator}

\* getDuplicateDetectionService(): the detector is built on a new
\* SSHKeyService(), whose table is empty and on which nothing ever connects
DetectorConnections == [id \in ConnIds |-> NoClient]

\* the client executeCommand of the detector's service finds for a probe;
\* a call that names no connection of the application finds none
Via(id) == IF id \in ConnIds THEN DetectorConnections[id] ELSE NoClient

\* history: the entry of the routes' sshKeyService for the id at that moment
Session(id) == IF id \in ConnIds THEN connections[id] ELSE NoClient

\* run on from rule `from` to the next await: the first rule that applies
\* issues its probe; past the last rule the verdict is "not a duplicate"
Advance(r, from) ==
  LET live == {x \in from..Rules : RuleApplies(x, r.command)} IN
    IF live = {} THEN [r EXCEPT !.pc = "done", !.verdict = NotDuplicate]
    ELSE LET x == CHOOSE y \in live : \A z \in live : y <= z
             param == RuleParam(x, r.command)
         IN [r EXCEPT !.pc = "probing", !.rule = x, !.n = 1, !.param = param,
                      !.probes = Append(@, [cmd |-> RuleProbe(x, 1, param),
                                            outcome |-> Thrown, rule |-> x,
                                            via |-> Via(r.id),
                                            session |-> Session(r.id)])]

NewDup(command) ==
  [pc |-> "idle", command |-> command, rule |-> 0, n |-> 0, param |-> <<>>,
   probes |-> <<>>, verdict |-> NotDuplicate, id |-> None]

\* checkForDuplicates(connectionId, command) up to its first await
DupCall(command) ==
  /\ dup.pc = "idle"
  /\ dup' = Advance(NewDup(command), 1)
  /\ UNCHANGED <<env, dbConns, memConns, connections, conn, disc, cmds, exec,
                 wsOpen, wsLog>>

\* the awaited probe settled with outcome: the helper's test, then either
\* the duplicate verdict, the next probe of the package loop, or the rules
\* after this one; a helper that rejects would reject checkForDuplicates
\* too, which has no try / catch of its own
DupProbeReturn(outcome) ==
  /\ dup.pc = "probing"
  /\ LET seen == [dup EXCEPT !.probes[Len(dup.probes)].outcome = outcome]
         answer == RulePositive(dup.rule, outcome, dup.param)
         positive == Truthy(answer)
     IN dup' =
          IF answer = "thrown" THEN [seen EXCEPT !.pc = "thrown"]
          ELSE IF positive
            THEN [seen EXCEPT !.pc = "done",
                    !.verdict = [isDuplicate |-> TRUE,
                                 message |-> RuleMessage(dup.rule, dup.param),
                                 suggestions |-> RuleSuggestions]]
          ELSE IF dup.rule \in 4..7 /\ dup.n < PackageProbes
            THEN [seen EXCEPT !.n = @ + 1,
                    !.probes = Append(@, [cmd |-> RuleProbe(dup.rule, dup.n + 1,
                                                            dup.param),
                                          outcome |-> Thrown,
                                          rule |-> dup.rule,
                                          via |-> Via(dup.id),
                                          session |-> Session(dup.id)])]
          ELSE Advance(seen, dup.rule + 1)
  /\ UNCHANGED <<env, dbConns, memConns, connections, conn, disc, cmds, exec,
                 wsOpen, wsLog>>

\* checkForDuplicates(connectionId, command) on the detector of
\* getDuplicateDetectionService(), for a connection of the application
CheckCall(id, command) ==
  /\ dup.pc = "idle"
  /\ dup' = Advance([NewDup(command) EXCEPT !.id = id], 1)
  /\ UNCHANGED <<env, dbConns, memConns, connections, conn, disc, cmds, exec,
                 wsOpen, wsLog>>

\* what executeCommand of the detector's service gives the pending probe:
\* the rejection 'SSH connection not found' when it found no client
ProbeResults(probe) ==
  IF probe.via = NoClient THEN {Thrown} ELSE ProbeOutcomes \ {Thrown}

\* the pending probe of a CheckCall settles
CheckProbeReturn ==
  /\ dup.id \in ConnIds
  /\ dup.pc = "probing"
  /\ \E outcome \in ProbeResults(dup.probes[Len(dup.probes)]) :
       DupProbeReturn(outcome)

DupNext ==
  \/ \E command \in DupCalls : DupCall(command)
  \/ \E outcome \in ProbeOutcomes : DupProbeReturn(outcome)

DupSpec == InitSession /\ [][DupNext]_vars

\* Conflict check specification: a conflict check on the detector of
\* getDuplicateDetectionService() beside the connect and execute routes.
CheckNext ==
  \/ \E id \in ConnIds : CreateConnection(id, FALSE)
  \/ \E c \in 1..StreamConnects, id \in ConnIds : ConnectStart(c, id)
  \/ \E c \in 1..StreamConnects : ConnectSteps(c)
  \/ \E k \in 1..SessionCommands, id \in ConnIds : CreateCommand(k, id)
  \/ \E e \in 1..SessionExecs, k \in 1..SessionCommands : ExecStart(e, k)
  \/ \E e \in 1..SessionExecs : ExecSteps(e, {"0"})
  \/ \E id \in ConnIds, command \in DupCalls : CheckCall(id, command)
  \/ CheckProbeReturn

CheckSpec == InitSession /\ [][CheckNext]_vars

\* Storage specification: createSSHConnection and
\* updateSSHConnectionStatus calls, each run to completion, applied to a
\* DatabaseStorage and a MemStorage side by side.
StoreCreate(id, isActive) ==
  /\ id \notin DOMAIN dbConns
  /\ dbConns' = DbCreateSSHConnection(dbConns, id, isActive)
  /\ memConns' = MemCreateSSHConnection(memConns, id, isActive)
  /\ UNCHANGED <<env, connections, conn, disc, cmds, exec, wsOpen, wsLog, dup>>

StoreUpdate(id, isActive) ==
  /\ dbConns' = DbUpdateSSHConnectionStatus(dbConns, id, isActive)
  /\ memConns' = MemUpdateSSHConnectionStatus(memConns, id, isActive)
  /\ UNCHANGED <<env, connections, conn, disc, cmds, exec, wsOpen, wsLog, dup>>

StoreNext ==
  \/ \E id \in StoreIds, b \in BOOLEAN : StoreCreate(id, b)
  \/ \E id \in StoreIds, b \in BOOLEAN : StoreUpdate(id, b)

StoreSpec == InitSession /\ [][StoreNext]_vars

\* ================================================================ claims

\* the connect calls of an id whose client is still connecting
ConnectingFor(id) ==
  {c \in ConnectCalls : conn[c].id = id /\ conn[c].pc = "awaiting"
                        /\ conn[c].st # "none"}

\* C1: for every connection id, connect calls that are in flight at the
\* same time share one transport connect attempt: at most one client is
\* connecting for the id on behalf of the calls still waiting.
C1_SingleFlight == \A id \in ConnIds : Cardinality(ConnectingFor(id)) <= 1

\* C2: executeCommand on an id with no session is rejected in the same step
\* with 'SSH connection not found': nothing is left pending, no client is
\* created or changed, nothing is handed to a client, the table is as before.
C2_NoSessionFailsFast ==
  [][\A e \in ExecCalls :
       (exec[e].pc = "dispatch" /\ exec'[e].pc # "dispatch"
        /\ connections[exec[e].id] = NoClient)
       => /\ exec'[e].pc = "rejected"
          /\ exec'[e].err = NoSession
          /\ exec'[e].h = NoClient
          /\ connections' = connections
          /\ conn' = conn]_vars

\* a request was rejected with NoSession on an id whose session had been
\* ready and was removed by the disconnect route
C2_Witness ==
  \E e \in ExecCalls, d \in DisconnectCalls, c \in ConnectCalls :
    /\ exec[e].pc = "rejected" /\ exec[e].err = NoSession
    /\ disc[d].pc # "idle" /\ disc[d].id = exec[e].id
    /\ conn[c].id = exec[e].id /\ conn[c].st = "ready" /\ conn[c].ends > 0

\* status of a command record, None when there is no such record
RecordStatus(k) == IF k \in DOMAIN cmds THEN cmds[k].status ELSE None

\* C3: an execution that was in flight when its connection id was
\* disconnected is eventually answered, and its command record is then not
\* 'running'.
C3_DisconnectCompletes ==
  \A e \in 1..SessionExecs :
    exec[e].cut ~> (exec[e].pc = "done" /\ RecordStatus(exec[e].cmd) # "running")

\* C4: two executeCommand runs are never in flight on the same session.
C4_OneInFlightPerSession ==
  \A e1, e2 \in ExecCalls :
    (e1 # e2 /\ InFlight(e1) /\ InFlight(e2)) => exec[e1].h # exec[e2].h

\* an output chunk among the websocket messages
IsOutput(m) == m.type = "output"

\* C5: in what one subscriber receives, the output messages of two command
\* ids of the same session are not interleaved: once a chunk of another
\* command id arrived, no further chunk of the earlier one follows.
C5_NoInterleaving ==
  \A w \in WsClients :
    \A i, j, k \in DOMAIN wsLog[w] :
      (i < j /\ j < k /\ IsOutput(wsLog[w][i]) /\ IsOutput(wsLog[w][j])
       /\ IsOutput(wsLog[w][k])
       /\ cmds[wsLog[w][i].commandId].connectionId
            = cmds[wsLog[w][j].commandId].connectionId)
      => ~(wsLog[w][i].commandId = wsLog[w][k].commandId
           /\ wsLog[w][j].commandId # wsLog[w][i].commandId)

\* a probe running command returned an output containing text
ProbeSaw(command, text) ==
  \E i \in DOMAIN dup.probes :
    /\ dup.probes[i].cmd = command
    /\ ~dup.probes[i].outcome.thrown
    /\ Includes(dup.probes[i].outcome.value.output, text)

\* every probe was rejected or returned no output
AllProbesSilent ==
  \A i \in DOMAIN dup.probes :
    dup.probes[i].outcome.thrown \/ dup.probes[i].outcome.value.output = <<>>

\* C6: on "apt install docker -y" the verdict is a duplicate with at least
\* one suggestion when the docker --version probe answered with 'Docker
\* version', and not a duplicate when no probe gave any output.
C6_DockerInstallVerdict ==
  (dup.pc = "done" /\ dup.command = CmdAptDocker) =>
    /\ ProbeSaw(ProbeDockerVersion, LitDockerVersion)
         => (dup.verdict.isDuplicate /\ dup.verdict.suggestions >= 1)
    /\ AllProbesSilent => ~dup.verdict.isDuplicate

\* C7: on "docker run --name web ..." the verdict is a duplicate whose
\* message names web when the docker ps probe listed web; on the same
\* command with web2 it is not a duplicate when no probe listed web2.
C7_DockerRunVerdict ==
  /\ (dup.pc = "done" /\ dup.command = CmdRunWeb
      /\ ProbeSaw(RuleProbe(3, 1, NameWeb), NameWeb))
       => (dup.verdict.isDuplicate /\ Includes(dup.verdict.message, NameWeb))
  /\ (dup.pc = "done" /\ dup.command = CmdRunWeb2
      /\ ~ProbeSaw(RuleProbe(3, 1, NameWeb2), NameWeb2))
       => ~dup.verdict.isDuplicate

\* s is an initial part of t
IsPrefix(s, t) == Len(s) <= Len(t) /\ SubSeq(t, 1, Len(s)) = s

\* C8: a connect call consults the credential sources in the documented
\* order, and answers "no credentials" only after it consulted all three.
C8_CredentialOrder ==
  \A c \in ConnectCalls :
    /\ IsPrefix(conn[c].tried, CredentialOrder)
    /\ (conn[c].pc = "done" /\ conn[c].resp = 400)
         => conn[c].tried = CredentialOrder

\* C9: without SSH_AUTH_SOCK no client is created or connected, no timer is
\* armed, no session is added, and every answered connect call failed.
C9_NoTransportWithoutCredential ==
  "agent" \notin env =>
    /\ \A c \in ConnectCalls :
         /\ conn[c].st = "none" /\ conn[c].timer = "none"
         /\ conn[c].result = "pending"
         /\ conn[c].pc = "done" => conn[c].resp \in {400, 404}
    /\ \A id \in ConnIds : connections[id] = NoClient

\* a connect call for an existing connection was answered 400: no agent
C9_Witness ==
  \E c \in ConnectCalls :
    /\ "agent" \notin env
    /\ conn[c].pc = "done" /\ conn[c].resp = 400
    /\ conn[c].id \in DOMAIN dbConns

\* C10: after any sequence of createSSHConnection and
\* updateSSHConnectionStatus calls at most one connection is active, in
\* either storage.
C10_AtMostOneActive ==
  /\ Cardinality(ActiveSet(dbConns)) <= 1
  /\ Cardinality(ActiveSet(memConns)) <= 1

\* C11: a disconnect call on an id without a session changes neither the
\* table nor any client and goes on to its answer; on an id with a session
\* it calls end() once on that client, removes that entry and touches no
\* other entry or client; so a second call finds nothing to do.
C11_DisconnectIdempotent ==
  [][\A d \in DisconnectCalls :
       (disc[d].pc = "idle" /\ disc'[d].pc # "idle") =>
         LET id == disc'[d].id IN
           /\ disc'[d].pc = "updating"
           /\ IF connections[id] = NoClient
                THEN connections' = connections /\ conn' = conn
                ELSE /\ connections' = [connections EXCEPT ![id] = NoClient]
                     /\ conn' = [conn EXCEPT ![connections[id]].ends = @ + 1]]_vars

\* two disconnect calls were made on an id whose session was ended once,
\* while the session of the other id is still registered and live
C11_Witness ==
  \E id, other \in ConnIds, c \in ConnectCalls :
    /\ id # other
    /\ \A d \in DisconnectCalls : disc[d].pc # "idle" /\ disc[d].id = id
    /\ conn[c].id = id /\ conn[c].st = "ready" /\ conn[c].ends = 1
    /\ connections[id] = NoClient
    /\ connections[other] # NoClient /\ Live(connections[other])

\* the clients of an id that are ready and were never ended
LiveHandles(id) == {c \in ConnectCalls : conn[c].id = id /\ Live(c)}

\* C12: every connection id has at most one live transport handle: a
\* connect for an id whose session is ready opens no second one.
C12_OneSessionPerId ==
  \A id \in ConnIds : Cardinality(LiveHandles(id)) <= 1

\* the exit code a close event carrying code has to yield
ExpectedExitCode(code) == IF code = Undefined THEN "0" ELSE code

\* C13: once the channel closed, the exit code executeCommand returns is 0
\* when the close event carried no code and the carried code otherwise, in
\* SSHKeyService and in SSHService.
C13_ExitCodeDefault ==
  \A e \in ExecCalls :
    exec[e].event # None =>
      /\ exec[e].code = ExpectedExitCode(exec[e].event)
      /\ SshCloseExitCode(exec[e].event) = ExpectedExitCode(exec[e].event)

\* the six rules of the documented order; the four package managers are one
RuleClass(rule) == IF rule \in 4..7 THEN 4 ELSE rule

\* C14: all probes one checkForDuplicates call issues belong to one rule,
\* the first whose pattern matched, whatever the probes answered.
C14_FirstRuleOnly ==
  \A i, j \in DOMAIN dup.probes :
    RuleClass(dup.probes[i].rule) = RuleClass(dup.probes[j].rule)

\* C15: checkForDuplicates never rejects; a verdict "duplicate" rests on a
\* last probe that returned with exit code 0, so a rejected probe or a
\* non-zero exit is a negative result; a verdict "not a duplicate" has an
\* empty message and no suggestions.
C15_NeverThrows ==
  /\ dup.pc # "thrown"
  /\ dup.pc = "done" =>
       IF dup.verdict.isDuplicate
         THEN /\ dup.probes # <<>>
              /\ ~dup.probes[Len(dup.probes)].outcome.thrown
              /\ dup.probes[Len(dup.probes)].outcome.value.exitCode = "0"
         ELSE dup.verdict = NotDuplicate

\* a call returned "not a duplicate" after one probe was rejected and
\* another exited with code 1
C15_Witness ==
  /\ dup.pc = "done" /\ dup.verdict = NotDuplicate
  /\ \E i \in DOMAIN dup.probes : dup.probes[i].outcome.thrown
  /\ \E i \in DOMAIN dup.probes :
       /\ ~dup.probes[i].outcome.thrown
       /\ dup.probes[i].outcome.value.exitCode = "1"

\* execution e ended in failure after output had been received
FailedWithOutput(e) ==
  /\ exec[e].pc \in {"resolved", "rejected", "notify", "notifyError", "done"}
  /\ exec[e].resp # 404
  /\ exec[e].code # "0"
  /\ exec[e].out # <<>>

\* C16: an execution that fails after chunks were received ends through the
\* close event, whose result carries the chunks, and the route then stores
\* them in the command record with status 'error'; a rejected execution
\* never had output.
C16_PartialOutputKept ==
  /\ [](\A e \in ExecCalls :
         /\ FailedWithOutput(e) => (exec[e].event # None /\ exec[e].err = None)
         /\ exec[e].err # None => exec[e].out = <<>>)
  /\ [][\A e \in ExecCalls :
         (FailedWithOutput(e) /\ exec[e].pc = "resolved"
          /\ exec'[e].pc # "resolved" /\ exec[e].cmd \in DOMAIN cmds)
         => /\ cmds'[exec[e].cmd].output = exec[e].out
            /\ cmds'[exec[e].cmd].status = "error"]_vars

\* a disconnect closed the channel of a running command without a code
\* after a chunk had arrived, and the request has been answered
C16_Witness ==
  \E e \in ExecCalls :
    /\ FailedWithOutput(e) /\ exec[e].pc = "done"
    /\ exec[e].cut /\ exec[e].event = Undefined
    /\ cmds[exec[e].cmd].output = exec[e].out

\* C17: when a chunk of an execution is published, the WebSocket clients
\* that receive it are exactly the clients connected at that moment.
C17_CurrentSubscribers ==
  [][\A e \in ExecCalls :
       Len(exec'[e].out) = Len(exec[e].out) + 1 =>
         \A w \in WsClients : (wsLog'[w] # wsLog[w]) <=> (w \in wsOpen)]_vars

\* a subscriber of the snapshot of execution e has closed
SinkClosed(e) == \E w \in exec[e].subs : w \notin wsOpen

\* C18: while a subscriber of its snapshot is closed, a streaming execution
\* can still take its next chunk and its close event, and every step it
\* takes either appends one chunk and keeps streaming or resolves with the
\* whole buffer.
C18_SinkNeverStalls ==
  /\ [](\A e \in ExecCalls :
         (exec[e].pc = "streaming" /\ SinkClosed(e)) =>
           /\ Len(exec[e].out) < MaxChunks => ENABLED StreamData(e)
           /\ ENABLED StreamClose(e, "0"))
  /\ [][\A e \in ExecCalls :
         (exec[e].pc = "streaming" /\ SinkClosed(e) /\ exec'[e] # exec[e]) =>
           \/ /\ exec'[e].pc = "streaming"
              /\ Len(exec'[e].out) = Len(exec[e].out) + 1
           \/ /\ exec'[e].pc = "resolved"
              /\ exec'[e].out = exec[e].out]_vars

\* a request was answered 200 with every chunk in the stored record
\* although its subscriber closed after receiving the first chunk only
C18_Witness ==
  \E e \in ExecCalls, w \in WsClients :
    /\ exec[e].pc = "done" /\ exec[e].resp = 200
    /\ w \in exec[e].subs /\ w \notin wsOpen
    /\ Len(exec[e].out) = MaxChunks
    /\ cmds[exec[e].cmd].output = exec[e].out
    /\ Len(wsLog[w]) = 1

\* connect call c registered its client although it reported failure
RegisteredAfterFailure(c) ==
  /\ conn[c].id \in ConnIds
  /\ conn[c].result = "false"
  /\ connections[conn[c].id] = c

\* every started connect call is answered
ConnectAnswered ==
  \A c \in ConnectCalls : (conn[c].pc # "idle") ~> (conn[c].pc = "done")

\* C19: every connect call that started is eventually answered, and a call
\* that reported failure (timeout or transport error) never has its client
\* registered as the session of the id.
C19_ConnectTerminates ==
  /\ [](\A c \in ConnectCalls : ~RegisteredAfterFailure(c))
  /\ ConnectAnswered

\* C20: every probe of a conflict check is run on the client that the
\* routes' session table holds for the connection id, the session the real
\* command runs on.
C20_ProbesOnSameSession ==
  \A i \in DOMAIN dup.probes :
    /\ dup.probes[i].session # NoClient
         => dup.probes[i].via = dup.probes[i].session
    /\ \A e \in ExecCalls :
         (exec[e].id = dup.id /\ exec[e].h # NoClient
          /\ exec[e].h = dup.probes[i].session)
           => dup.probes[i].via = exec[e].h

\* characters with which a shell ends one command and starts another
ShellMeta == {";", "|", "&", "$", "\n"}

\* C21: the text a probe template is filled with never holds a shell
\* metacharacter, so every probe sent is the template's read-only command.
C21_ProbesFromTemplates ==
  dup.pc = "probing" => \A j \in DOMAIN dup.param : dup.param[j] \notin ShellMeta

\* C22: whenever no updateSSHConnectionStatus(id, true) call stands between
\* its two statements, at most one connection of DatabaseStorage is active,
\* however the statements of concurrent activations were interleaved.
C22_ConcurrentActivation ==
  (\A c \in ConnectCalls : conn[c].pc # "activating")
    => Cardinality(ActiveSet(dbConns)) <= 1

\* a 'completed' or 'error' message
IsTerminal(m) == m.type \in {"completed", "error"}

\* what subscriber w received of execute request e, in order
RunLog(w, e) == SelectSeq(wsLog[w], LAMBDA m : m.run = e)

\* C23: of one execution a subscriber receives at most one terminal message
\* and nothing after it, and the step that answers the request sends the
\* terminal message to every subscriber of its snapshot that is still open.
C23_OneTerminalMessage ==
  /\ [](\A w \in WsClients, e \in ExecCalls :
         \A i \in DOMAIN RunLog(w, e) :
           IsTerminal(RunLog(w, e)[i]) => i = Len(RunLog(w, e)))
  /\ [][\A e \in ExecCalls :
         (exec[e].pc # "done" /\ exec'[e].pc = "done" /\ exec'[e].resp # 404) =>
           \A w \in exec[e].subs \cap wsOpen :
             /\ Len(wsLog'[w]) = Len(wsLog[w]) + 1
             /\ IsTerminal(wsLog'[w][Len(wsLog'[w])])
             /\ wsLog'[w][Len(wsLog'[w])].run = e]_vars

\* a subscriber received every chunk of an answered execution and then its
\* 'completed' message
C23_Witness ==
  \E w \in WsClients, e \in ExecCalls :
    /\ exec[e].pc = "done" /\ exec[e].resp = 200
    /\ Len(RunLog(w, e)) = MaxChunks + 1
    /\ RunLog(w, e)[MaxChunks + 1].type = "completed"

\* the clients the session table holds
Registered == {connections[id] : id \in ConnIds} \ {NoClient}

RoutesQuiet ==
  /\ \A c \in ConnectCalls : conn[c].pc \in {"idle", "done"}
  /\ \A d \in DisconnectCalls : disc[d].pc \in {"idle", "done"}

\* C25: while no route call is in progress, every connection the store
\* marks active has a session in the table.
C25_ActiveHasSession ==
  RoutesQuiet => \A id \in ActiveSet(dbConns) : connections[id] # NoClient

\* C26: every client in the session table belongs to a connect call whose
\* promise resolved true; a call whose timer fired first registers nothing.
C26_OnlySuccessRegisters ==
  \A id \in ConnIds :
    connections[id] # NoClient =>
      /\ conn[connections[id]].result = "true"
      /\ conn[connections[id]].timer # "fired"

\* C27: every client that is ready is the table entry of its connection id
\* or has been ended.
C27_NoHandleLeak ==
  \A c \in ConnectCalls :
    conn[c].st = "ready" => (connections[conn[c].id] = c \/ conn[c].ends > 0)

\* C28: no entry of the session table refers to a client whose transport
\* has failed.
C28_EntriesAreLive ==
  \A id \in ConnIds :
    connections[id] # NoClient => conn[connections[id]].st # "failed"

\* execute request e has marked its record 'running' and not yet stored
\* the outcome
InProgress(e) ==
  exec[e].pc \in {"dispatch", "opening", "streaming", "resolved", "rejected"}

\* the status the outcome of execute request e has to leave in its record
OutcomeStatus(e) ==
  IF exec[e].err = None /\ exec[e].code = "0" THEN "success" ELSE "error"

\* C29: a record is 'running' only while an execute request on it is in
\* progress, and when a request on an existing record is answered the
\* record's status is 'success' if its execution produced exit code 0 and
\* 'error' otherwise.
C29_StatusFollowsOutcome ==
  /\ [](\A k \in DOMAIN cmds :
         cmds[k].status = "running" =>
           \E e \in ExecCalls : exec[e].cmd = k /\ InProgress(e))
  /\ [][\A e \in ExecCalls :
         (exec[e].pc # "done" /\ exec'[e].pc = "done" /\ exec'[e].resp # 404
          /\ exec[e].cmd \in DOMAIN cmds)
         => cmds'[exec[e].cmd].status = OutcomeStatus(e)]_vars

\* C30: an updateSSHConnectionStatus call made when MemStorage and
\* DatabaseStorage mark the same connections active leaves them marking the
\* same connections active, also when its id has no record.
C30_StoragesAgree ==
  [][(DOMAIN dbConns' = DOMAIN dbConns
      /\ ActiveSet(dbConns) = ActiveSet(memConns))
     => ActiveSet(dbConns') = ActiveSet(memConns')]_vars

====
